---- MODULE Spec2Model ----
(***************************************************************************)
(* A model of the AI content detector: the analysis pipeline of            *)
(* src/ai_detector.py (lazy model cache, document and sentence             *)
(* classification, console summary) and the request handlers and PDF       *)
(* report layout of src/webapp.py.                                         *)
(*                                                                         *)
(* Representation.  A text is a sequence of one-character strings.  A     *)
(* float score of the classifier, s in [0,1], is the integer raw = s*Milli *)
(* (thousandths); a percentage is kept in thousandths of a percent, so     *)
(* the code's "score * 100" is raw * 100 and 100.0 is 100 * Milli.  PDF    *)
(* coordinates are in hundredths of a point.                               *)
(***************************************************************************)
EXTENDS Integers, Sequences, FiniteSets, TLC

(***************************************************************************)
(* Bounds of the model.                                                    *)
(***************************************************************************)
MaxLen == 4        \* longest text typed into a form or on the command line
MaxParas == 2      \* most paragraphs of an uploaded Word document
NThreads == 2      \* request threads of the web server
MaxCalls == 2      \* calls of the model loader one thread makes
MaxLines == 102    \* most wrapped lines of an analysed text in a report

Chars == {"a", ".", " ", "\n"}
Space == {" ", "\n"}
Punct == {".", "!", "?"}

Texts == UNION {[1..n -> Chars] : n \in 0..MaxLen}

\* The paragraphs of a Word document: each at most one character here.
ParaTexts == UNION {[1..n -> {"a", ".", " "}] : n \in 0..1}
Docs == UNION {[1..n -> ParaTexts] : n \in 0..MaxParas}

Threads == 1..NThreads

(***************************************************************************)
(* Text helpers: str.strip, re.split, str.split, str.join.                 *)
(***************************************************************************)
RECURSIVE LStrip(_)
LStrip(s) ==
    IF s = <<>> THEN <<>>
    ELSE IF Head(s) \in Space THEN LStrip(Tail(s)) ELSE s

RECURSIVE RStrip(_)
RStrip(s) ==
    IF s = <<>> THEN <<>>
    ELSE IF s[Len(s)] \in Space THEN RStrip(SubSeq(s, 1, Len(s) - 1)) ELSE s

Strip(s) == RStrip(LStrip(s))

\* The last index of the run of whitespace that starts at i.
RECURSIVE SpaceRunEnd(_, _)
SpaceRunEnd(s, i) ==
    IF i < Len(s) /\ s[i + 1] \in Space THEN SpaceRunEnd(s, i + 1) ELSE i

\* re.split(r'(?<=[.!?])\s+', s): the pieces between the matches, empty
\* pieces included; i scans for the next match, start is where the current
\* piece began.
RECURSIVE ReSplitFrom(_, _, _)
ReSplitFrom(s, i, start) ==
    IF i > Len(s) THEN <<SubSeq(s, start, Len(s))>>
    ELSE IF i > 1 /\ s[i - 1] \in Punct /\ s[i] \in Space
         THEN LET j == SpaceRunEnd(s, i)
              IN  <<SubSeq(s, start, i - 1)>> \o ReSplitFrom(s, j + 1, j + 1)
         ELSE ReSplitFrom(s, i + 1, start)

ReSplit(s) == ReSplitFrom(s, 1, 1)

\* s.split('\n\n')
RECURSIVE SplitBlankFrom(_, _, _)
SplitBlankFrom(s, i, start) ==
    IF i + 1 > Len(s) THEN <<SubSeq(s, start, Len(s))>>
    ELSE IF s[i] = "\n" /\ s[i + 1] = "\n"
         THEN <<SubSeq(s, start, i - 1)>> \o SplitBlankFrom(s, i + 2, i + 2)
         ELSE SplitBlankFrom(s, i + 1, start)

\* [p.strip() for p in pieces if p.strip()]
RECURSIVE StripNonEmpty(_)
StripNonEmpty(pieces) ==
    IF pieces = <<>> THEN <<>>
    ELSE LET p == Strip(Head(pieces))
         IN  (IF p = <<>> THEN <<>> ELSE <<p>>) \o StripNonEmpty(Tail(pieces))

_split_sentences(text) == StripNonEmpty(ReSplit(text))

_paragraphs_from_text(text) == StripNonEmpty(SplitBlankFrom(text, 1, 1))

\* '\n'.join(parts)
RECURSIVE JoinLines(_)
JoinLines(parts) ==
    IF parts = <<>> THEN <<>>
    ELSE IF Len(parts) = 1 THEN Head(parts)
    ELSE Head(parts) \o <<"\n">> \o JoinLines(Tail(parts))

\* [p.text for p in document.paragraphs if p.text.strip()]
RECURSIVE NonBlank(_)
NonBlank(paras) ==
    IF paras = <<>> THEN <<>>
    ELSE (IF Strip(Head(paras)) = <<>> THEN <<>> ELSE <<Head(paras)>>)
         \o NonBlank(Tail(paras))

_text_from_document(doc) == JoinLines(NonBlank(doc))

read_docx_bytes(doc) == _text_from_document(doc)

read_docx_file(doc) == _text_from_document(doc)

(***************************************************************************)
(* The classification capability and the result analyze_text builds.       *)
(***************************************************************************)
Milli == 1000                  \* resolution of a float score: 1.0 = Milli
Hundred == 100 * Milli         \* the literal 100.0, in thousandths of a percent

NativeLabels == {"Real", "Fake"}
RawScores == {0, 120, 995}
\* One element of what pipe(...) returns: {'label': ..., 'score': ...}.
Outs == [label : NativeLabels, score : RawScores]

\* A slip: the label of the other class.
DocLabelOfOtherClass(res) == IF res.label = "Fake" THEN "Real" ELSE "Fake"

\* result[0]['label']
DocLabel(res) == res.label

\* result[0]['score'] * 100
ScorePercent(raw) == raw * 100

\* A slip: the complement to 1.0 instead of 100.0.
OriginalityOfFraction(score) == Milli - score

\* 100.0 - score
Originality(score) == Hundred - score

\* One entry of the list analyze_sentences returns.
SentenceEntry(sentence, res) ==
    [sentence |-> sentence,
     label |-> res.label,
     score |-> ScorePercent(res.score),
     originality |-> Hundred - ScorePercent(res.score)]

\* A slip: the results paired with the sentences from the other end.
SentenceEntriesReversed(sentences, results) ==
    [idx \in 1..Len(results) |->
        SentenceEntry(sentences[idx], results[Len(results) + 1 - idx])]

\* [ {...} for idx, result in enumerate(results) ]
SentenceEntries(sentences, results) ==
    [idx \in 1..Len(results) |-> SentenceEntry(sentences[idx], results[idx])]

\* A slip: the batch is sent even when there is no sentence.
NeedsBatchAlways(sentences) == TRUE

\* if not sentences: return []
NeedsBatch(sentences) == sentences # <<>>

\* The dict analyze_text returns.
AnalysisDict(text, res, sents) ==
    [label |-> DocLabel(res),
     score |-> ScorePercent(res.score),
     originality |-> Originality(ScorePercent(res.score)),
     text |-> text,
     sentences |-> sents,
     paragraphs |-> _paragraphs_from_text(text)]

\* A slip: a failed call is made again.
AfterPipeCallRetry(ok, next) ==
    IF ok THEN next ELSE IF next = "split" THEN "call19" ELSE "call43"

\* Where analyze_text goes after a call of pipe(...): on with its next
\* statement, or out with the exception the call raised (there is no
\* try/except anywhere on the way to the handler).
AfterPipeCall(ok, next) == IF ok THEN next ELSE "raise"

(***************************************************************************)
(* The two renderings of the "likely source" tier.                         *)
(***************************************************************************)
\* The tier when the score thresholds are tested before the label.
ScoreFirstTier(label, score) ==
    IF score > 98 * Milli THEN "top"
    ELSE IF score > 90 * Milli THEN "mid"
    ELSE IF label = "Fake" THEN "basic"
    ELSE "human"

\* detect_ai_content: what the console prints.
ConsoleTier(label, score) ==
    IF label = "Fake"
    THEN IF score > 98 * Milli THEN "top"
         ELSE IF score > 90 * Milli THEN "mid"
         ELSE "basic"
    ELSE "human"

\* TEMPLATE: the Interpretation paragraph of the result page.
TemplateTier(label, score) ==
    IF score > 98 * Milli THEN "top"
    ELSE IF score > 90 * Milli THEN "mid"
    ELSE IF label = "Fake" THEN "basic"
    ELSE "human"

(***************************************************************************)
(* State.                                                                  *)
(***************************************************************************)
VARIABLES
    cache,      \* lru_cache of _load_detector_pipe: 0 (empty) or the handle
    loads,      \* how many times pipeline(...) has built a model
    lpc,        \* per thread: where its call of _load_detector_pipe is
    lres,       \* per thread: the handle its call holds
    lcalls,     \* per thread: loader calls made by the thread's driver
    handed,     \* the handles the loader has returned to callers
    pc,         \* the request in progress: its position
    entry,      \* which handler received it
    text,       \* the text passed to analyze_text
    called,     \* analyze_text was entered for this request
    pipe,       \* the handle analyze_text / analyze_sentences holds
    docOut,     \* <<>> or <<what pipe(text) returned>>
    sentences,  \* the local of analyze_sentences
    batchOut,   \* what pipe(sentences) returned
    sentOut,    \* the list analyze_sentences returned
    result,     \* <<>> or <<the dict analyze_text returned>>
    outcome,    \* how the request ended
    trace,      \* the calls of pipe(...) made for this request, in order
    console,    \* the tier detect_ai_content printed
    page,       \* the tier the result page shows
    rpc,        \* _create_pdf_report: its position ("off": not running)
    nLines,     \* len(textwrap.wrap(analysis['text'], 90))
    lineNo,     \* body lines drawn so far
    y,          \* the vertical cursor
    dirty,      \* the canvas holds operations of a page not yet closed
    pages,      \* pages the canvas has closed
    breaks,     \* page breaks made by the body loop
    drawnAt     \* <<>> or <<the y of the line drawn last>>

loaderVars == <<cache, loads, lpc, lres, lcalls, handed>>
reqVars == <<pc, entry, text, called, pipe, docOut, sentences, batchOut,
             sentOut, result, outcome, trace, console, page>>
reportVars == <<rpc, nLines, lineNo, y, dirty, pages, breaks, drawnAt>>
vars == <<cache, loads, lpc, lres, lcalls, handed, pc, entry, text, called,
          pipe, docOut, sentences, batchOut, sentOut, result, outcome, trace,
          console, page, rpc, nLines, lineNo, y, dirty, pages, breaks,
          drawnAt>>

\* The thread that serves the request of the analysis model: the first.
Req == CHOOSE t \in Threads : \A u \in Threads : t <= u

InitLoader ==
    /\ cache = 0
    /\ loads = 0
    /\ lpc = [t \in Threads |-> "idle"]
    /\ lres = [t \in Threads |-> 0]
    /\ lcalls = [t \in Threads |-> 0]
    /\ handed = {}

InitReq ==
    /\ pc = "idle"
    /\ entry = "none"
    /\ text = <<>>
    /\ called = FALSE
    /\ pipe = 0
    /\ docOut = <<>>
    /\ sentences = <<>>
    /\ batchOut = <<>>
    /\ sentOut = <<>>
    /\ result = <<>>
    /\ outcome = "none"
    /\ trace = <<>>
    /\ console = "none"
    /\ page = "none"

\* No report is being rendered.
InitNoReport ==
    /\ rpc = "off"
    /\ nLines = 0
    /\ lineNo = 0
    /\ y = 0
    /\ dirty = FALSE
    /\ pages = 0
    /\ breaks = 0
    /\ drawnAt = <<>>

(***************************************************************************)
(* _load_detector_pipe under @lru_cache(maxsize=1).  The wrapper looks    *)
(* the (empty) argument key up, calls the function on a miss without       *)
(* holding any lock, and stores the result afterwards unless the key has   *)
(* been stored meanwhile; the caller gets the result of its own call.      *)
(***************************************************************************)
LruLookup(t) ==
    /\ lpc[t] = "lookup"
    /\ IF cache # 0
       THEN /\ lres' = [lres EXCEPT ![t] = cache]
            /\ lpc' = [lpc EXCEPT ![t] = "returned"]
            /\ handed' = handed \cup {cache}
       ELSE /\ lpc' = [lpc EXCEPT ![t] = "miss"]
            /\ UNCHANGED <<lres, handed>>
    /\ UNCHANGED <<cache, loads, lcalls>>

\* pipeline("text-classification", model=...) builds a model ...
LoadModel(t) ==
    /\ lpc[t] = "miss"
    /\ loads' = loads + 1
    /\ lres' = [lres EXCEPT ![t] = loads + 1]
    /\ lpc' = [lpc EXCEPT ![t] = "store"]
    /\ UNCHANGED <<cache, lcalls, handed>>

\* ... or raises (no weights, no memory): nothing is cached.
LoadFails(t) ==
    /\ lpc[t] = "miss"
    /\ lpc' = [lpc EXCEPT ![t] = "raised"]
    /\ UNCHANGED <<cache, loads, lres, lcalls, handed>>

LruStore(t) ==
    /\ lpc[t] = "store"
    /\ cache' = IF cache # 0 THEN cache ELSE lres[t]
    /\ lpc' = [lpc EXCEPT ![t] = "returned"]
    /\ handed' = handed \cup {lres[t]}
    /\ UNCHANGED <<loads, lres, lcalls>>

(***************************************************************************)
(* The handlers that receive a request and decide whether analyze_text is  *)
(* called.  Each stores the text it would pass and either rejects the      *)
(* request or goes on to analyze_text.                                     *)
(***************************************************************************)
Uploads == {"none", "other", "docx"}   \* no file, a file not .docx, a .docx

\* index(): the error it sets before analysing, "" when none.
IndexError(up, stripped) ==
    IF up # "none"
    THEN IF up # "docx" THEN "Please upload a .docx file." ELSE ""
    ELSE IF stripped = <<>> THEN "Provide text or upload a document." ELSE ""

\* index(): the text it ends up with.
IndexText(up, stripped, doc) ==
    IF up = "docx" THEN read_docx_bytes(doc) ELSE stripped

Receive(handler, t, accepted) ==
    /\ entry' = handler
    /\ text' = t
    /\ IF accepted
       THEN /\ pc' = "analyze"
            /\ outcome' = "none"
       ELSE /\ pc' = "done"
            /\ outcome' = "Rejected"
    /\ UNCHANGED <<called, pipe, docOut, sentences, batchOut, sentOut, result, trace,
                   console, page>>
    /\ UNCHANGED loaderVars
    /\ UNCHANGED reportVars

\* GET /: the form is rendered, nothing is analysed.
IndexGet ==
    /\ pc = "idle"
    /\ entry' = "index"
    /\ pc' = "done"
    /\ outcome' = "Form"
    /\ UNCHANGED <<text, called, pipe, docOut, sentences, batchOut, sentOut, result,
                   trace, console, page>>
    /\ UNCHANGED loaderVars
    /\ UNCHANGED reportVars

\* POST /
IndexPost ==
    /\ pc = "idle"
    /\ \E up \in Uploads, form \in Texts, doc \in Docs :
        LET stripped == Strip(form)
        IN  Receive("index", IndexText(up, stripped, doc),
                    IndexError(up, stripped) = "")

\* POST /report
Report ==
    /\ pc = "idle"
    /\ \E form \in Texts :
        Receive("report", Strip(form), Strip(form) # <<>>)

\* main() with --doc: a missing file or another suffix ends the program;
\* otherwise the document's text is read and must not be empty.
CliDoc ==
    /\ pc = "idle"
    /\ \E found \in BOOLEAN, isDocx \in BOOLEAN, doc \in Docs :
        IF found /\ isDocx
        THEN Receive("cli", read_docx_file(doc), read_docx_file(doc) # <<>>)
        ELSE Receive("cli", <<>>, FALSE)

\* main() with --text, a piped stdin or a typed line: the text is stripped
\* and must not be empty.
CliText ==
    /\ pc = "idle"
    /\ \E raw \in Texts :
        Receive("cli", Strip(raw), Strip(raw) # <<>>)

(***************************************************************************)
(* analyze_text and analyze_sentences, statement by statement.             *)
(***************************************************************************)
CallLoader(t) ==
    /\ lpc[t] = "idle"
    /\ lpc' = [lpc EXCEPT ![t] = "lookup"]
    /\ UNCHANGED <<cache, loads, lres, lcalls, handed>>

LoaderReturned(t) ==
    /\ lpc[t] = "returned"
    /\ lpc' = [lpc EXCEPT ![t] = "idle"]
    /\ UNCHANGED <<cache, loads, lres, lcalls, handed>>

\* The exception of a failed load or classifier call leaves analyze_text
\* and its handler: the request ends without a result.
Raise ==
    /\ pc' = "done"
    /\ outcome' = "ClassificationUnavailable"

\* analyze_text, line 18: pipe = _load_detector_pipe()
AnalyzeText ==
    /\ pc = "analyze"
    /\ called' = TRUE
    /\ pc' = "load18"
    /\ CallLoader(Req)
    /\ UNCHANGED <<entry, text, pipe, docOut, sentences, batchOut, sentOut, result,
                   outcome, trace, console, page>>
    /\ UNCHANGED reportVars

GotPipe ==
    /\ pc \in {"load18", "load42"}
    /\ LoaderReturned(Req)
    /\ pipe' = lres[Req]
    /\ pc' = IF pc = "load18" THEN "call19" ELSE "call43"
    /\ UNCHANGED <<entry, text, called, docOut, sentences, batchOut, sentOut, result,
                   outcome, trace, console, page>>
    /\ UNCHANGED reportVars

LoadRaised ==
    /\ pc \in {"load18", "load42"}
    /\ lpc[Req] = "raised"
    /\ lpc' = [lpc EXCEPT ![Req] = "idle"]
    /\ Raise
    /\ UNCHANGED <<cache, loads, lres, lcalls, handed>>
    /\ UNCHANGED <<entry, text, called, pipe, docOut, sentences, batchOut, sentOut,
                   result, trace, console, page>>
    /\ UNCHANGED reportVars

\* analyze_text, line 19: result = pipe(text, ...): one result for the one
\* string, or an exception.
DocCall ==
    /\ pc = "call19"
    /\ \E ok \in BOOLEAN, out \in Outs :
        /\ trace' = Append(trace, [op |-> "doc", inputs |-> <<text>>, ok |-> ok])
        /\ docOut' = IF ok THEN <<out>> ELSE <<>>
        /\ LET to == AfterPipeCall(ok, "split")
           IN  IF to = "raise"
               THEN Raise
               ELSE pc' = to /\ UNCHANGED outcome
    /\ UNCHANGED <<entry, text, called, pipe, sentences, batchOut, sentOut, result,
                   console, page>>
    /\ UNCHANGED loaderVars
    /\ UNCHANGED reportVars

\* analyze_sentences, lines 38-42: split, return [] for no sentence, else
\* fetch the pipe.
SplitSentences ==
    /\ pc = "split"
    /\ sentences' = _split_sentences(text)
    /\ IF NeedsBatch(sentences')
       THEN /\ pc' = "load42"
            /\ CallLoader(Req)
            /\ UNCHANGED sentOut
       ELSE /\ pc' = "assemble"
            /\ sentOut' = <<>>
            /\ UNCHANGED loaderVars
    /\ UNCHANGED <<entry, text, called, pipe, docOut, batchOut, result,
                   outcome, trace, console, page>>
    /\ UNCHANGED reportVars

\* analyze_sentences, lines 43-52: results = pipe(sentences, ...): one
\* result per sentence, in order, or an exception.
BatchCall ==
    /\ pc = "call43"
    /\ \E ok \in BOOLEAN, outs \in [1..Len(sentences) -> Outs] :
        /\ trace' = Append(trace,
                           [op |-> "batch", inputs |-> sentences, ok |-> ok])
        /\ batchOut' = IF ok THEN outs ELSE <<>>
        /\ sentOut' = IF ok THEN SentenceEntries(sentences, outs) ELSE <<>>
        /\ LET to == AfterPipeCall(ok, "assemble")
           IN  IF to = "raise"
               THEN Raise
               ELSE pc' = to /\ UNCHANGED outcome
    /\ UNCHANGED <<entry, text, called, pipe, docOut, sentences, result,
                   console, page>>
    /\ UNCHANGED loaderVars
    /\ UNCHANGED reportVars

\* analyze_text, lines 20-29: the dict is built and returned.
Assemble ==
    /\ pc = "assemble"
    /\ result' = <<AnalysisDict(text, docOut[1], sentOut)>>
    /\ pc' = "returned"
    /\ UNCHANGED <<entry, text, called, pipe, docOut, sentences, batchOut, sentOut,
                   outcome, trace, console, page>>
    /\ UNCHANGED loaderVars
    /\ UNCHANGED reportVars

(***************************************************************************)
(* What each handler does with the dict.                                   *)
(***************************************************************************)
\* detect_ai_content, lines 61-79
CliPrint ==
    /\ pc = "returned" /\ entry = "cli"
    /\ console' = ConsoleTier(result[1].label, result[1].score)
    /\ pc' = "done"
    /\ outcome' = "Ok"
    /\ UNCHANGED <<entry, text, called, pipe, docOut, sentences, batchOut, sentOut,
                   result, trace, page>>
    /\ UNCHANGED loaderVars
    /\ UNCHANGED reportVars

\* index(): render_template_string(TEMPLATE, result=result, ...)
IndexRender ==
    /\ pc = "returned" /\ entry = "index"
    /\ page' = TemplateTier(result[1].label, result[1].score)
    /\ pc' = "done"
    /\ outcome' = "Ok"
    /\ UNCHANGED <<entry, text, called, pipe, docOut, sentences, batchOut, sentOut,
                   result, trace, console>>
    /\ UNCHANGED loaderVars
    /\ UNCHANGED reportVars

\* report(): the PDF is built from the dict and sent.
ReportSend ==
    /\ pc = "returned" /\ entry = "report"
    /\ pc' = "done"
    /\ outcome' = "Ok"
    /\ UNCHANGED <<entry, text, called, pipe, docOut, sentences, batchOut, sentOut,
                   result, trace, console, page>>
    /\ UNCHANGED loaderVars
    /\ UNCHANGED reportVars

\* The request is over; the process (and its model cache) lives on and
\* takes the next one.
NextRequest ==
    /\ pc = "done"
    /\ pc' = "idle"
    /\ entry' = "none"
    /\ text' = <<>>
    /\ called' = FALSE
    /\ pipe' = 0
    /\ docOut' = <<>>
    /\ sentences' = <<>>
    /\ batchOut' = <<>>
    /\ sentOut' = <<>>
    /\ result' = <<>>
    /\ outcome' = "none"
    /\ trace' = <<>>
    /\ console' = "none"
    /\ page' = "none"
    /\ UNCHANGED loaderVars
    /\ UNCHANGED reportVars

\* The request's own steps through the loader; a run of pipeline(...) is
\* noted in the request's trace.
ReqLookup ==
    /\ LruLookup(Req)
    /\ UNCHANGED reqVars
    /\ UNCHANGED reportVars

ReqLoadModel ==
    /\ LoadModel(Req)
    /\ trace' = Append(trace, [op |-> "load", inputs |-> <<>>, ok |-> TRUE])
    /\ UNCHANGED <<pc, entry, text, called, pipe, docOut, sentences,
                   batchOut, sentOut, result, outcome, console, page>>
    /\ UNCHANGED reportVars

ReqLoadFails ==
    /\ LoadFails(Req)
    /\ trace' = Append(trace, [op |-> "load", inputs |-> <<>>, ok |-> FALSE])
    /\ UNCHANGED <<pc, entry, text, called, pipe, docOut, sentences,
                   batchOut, sentOut, result, outcome, console, page>>
    /\ UNCHANGED reportVars

ReqStore ==
    /\ LruStore(Req)
    /\ UNCHANGED reqVars
    /\ UNCHANGED reportVars

Init == InitLoader /\ InitReq /\ InitNoReport

Next ==
    \/ IndexGet
    \/ IndexPost
    \/ Report
    \/ CliDoc
    \/ CliText
    \/ AnalyzeText
    \/ ReqLookup
    \/ ReqLoadModel
    \/ ReqLoadFails
    \/ ReqStore
    \/ GotPipe
    \/ LoadRaised
    \/ DocCall
    \/ SplitSentences
    \/ BatchCall
    \/ Assemble
    \/ CliPrint
    \/ IndexRender
    \/ ReportSend
    \/ NextRequest

Spec == Init /\ [][Next]_vars

(***************************************************************************)
(* The loader under concurrent request threads (Flask's development       *)
(* server handles each request in a thread of its own).  Each thread      *)
(* calls _load_detector_pipe up to MaxCalls times, as analyze_text and     *)
(* analyze_sentences do; the steps of the calls interleave freely.         *)
(***************************************************************************)
OnlyLoader == UNCHANGED reqVars /\ UNCHANGED reportVars

ThreadCalls(t) ==
    /\ lpc[t] = "idle"
    /\ lcalls[t] < MaxCalls
    /\ lpc' = [lpc EXCEPT ![t] = "lookup"]
    /\ lcalls' = [lcalls EXCEPT ![t] = @ + 1]
    /\ UNCHANGED <<cache, loads, lres, handed>>
    /\ OnlyLoader

ThreadLookup(t) == LruLookup(t) /\ OnlyLoader

ThreadLoadModel(t) == LoadModel(t) /\ OnlyLoader

ThreadLoadFails(t) == LoadFails(t) /\ OnlyLoader

ThreadStore(t) == LruStore(t) /\ OnlyLoader

ThreadGot(t) == LoaderReturned(t) /\ OnlyLoader

ThreadRaised(t) ==
    /\ lpc[t] = "raised"
    /\ lpc' = [lpc EXCEPT ![t] = "idle"]
    /\ UNCHANGED <<cache, loads, lres, lcalls, handed>>
    /\ OnlyLoader

NextLoad ==
    \E t \in Threads :
        \/ ThreadCalls(t)
        \/ ThreadLookup(t)
        \/ ThreadLoadModel(t)
        \/ ThreadLoadFails(t)
        \/ ThreadStore(t)
        \/ ThreadGot(t)
        \/ ThreadRaised(t)

SpecLoad == Init /\ [][NextLoad]_vars

(***************************************************************************)
(* _create_pdf_report.  Lengths are in hundredths of a point.  The canvas  *)
(* counts a page when showPage closes it; save() closes one more page     *)
(* only if operations are pending.  The number of wrapped lines is the     *)
(* input of the layout.                                                    *)
(***************************************************************************)
Pt == 100
PageHeight == 84189            \* A4[1] = 841.8897637795277 points
Margin == 40 * Pt              \* margin = 40
TopY == PageHeight - Margin    \* page_height - margin
TitleStep == 30 * Pt
ResultStep == 16 * Pt
ConfidenceStep == 24 * Pt
HeaderStep == 18 * Pt
LineStep == 14 * Pt

\* A slip: a new page only once the cursor has left the sheet.
NeedsPageOffSheet(cursor) == cursor < 0

\* A slip: the 20 points above the margin forgotten.
NeedsPageAtMargin(cursor) == cursor < Margin

\* if y < margin + 20:
NeedsPage(cursor) == cursor < Margin + 20 * Pt

\* c.drawString(margin, y, ...); y -= step
DrawRow(from, to, step) ==
    /\ rpc = from
    /\ drawnAt' = <<y>>
    /\ y' = y - step
    /\ dirty' = TRUE
    /\ rpc' = to
    /\ UNCHANGED <<nLines, lineNo, pages, breaks>>
    /\ UNCHANGED loaderVars
    /\ UNCHANGED reqVars

DrawTitle == DrawRow("title", "result", TitleStep)

DrawResult == DrawRow("result", "confidence", ResultStep)

DrawConfidence == DrawRow("confidence", "header", ConfidenceStep)

DrawHeader == DrawRow("header", "loop", HeaderStep)

\* The loop head with the cursor too low: c.showPage(), cursor to the top,
\* c.setFont(...).
PageBreak ==
    /\ rpc = "loop"
    /\ lineNo < nLines
    /\ NeedsPage(y)
    /\ pages' = pages + 1
    /\ breaks' = breaks + 1
    /\ y' = TopY
    /\ dirty' = TRUE
    /\ rpc' = "draw"
    /\ UNCHANGED <<nLines, lineNo, drawnAt>>
    /\ UNCHANGED loaderVars
    /\ UNCHANGED reqVars

\* c.drawString(margin, y, line); y -= 14
DrawLine ==
    /\ \/ rpc = "draw"
       \/ rpc = "loop" /\ lineNo < nLines /\ ~NeedsPage(y)
    /\ drawnAt' = <<y>>
    /\ y' = y - LineStep
    /\ lineNo' = lineNo + 1
    /\ dirty' = TRUE
    /\ rpc' = "loop"
    /\ UNCHANGED <<nLines, pages, breaks>>
    /\ UNCHANGED loaderVars
    /\ UNCHANGED reqVars

\* After the loop: c.showPage()
LastPage ==
    /\ rpc = "loop"
    /\ lineNo = nLines
    /\ pages' = pages + 1
    /\ dirty' = FALSE
    /\ rpc' = "save"
    /\ UNCHANGED <<nLines, lineNo, y, breaks, drawnAt>>
    /\ UNCHANGED loaderVars
    /\ UNCHANGED reqVars

\* c.save(): a page with pending operations is closed first.
Save ==
    /\ rpc = "save"
    /\ pages' = IF dirty THEN pages + 1 ELSE pages
    /\ dirty' = FALSE
    /\ rpc' = "done"
    /\ UNCHANGED <<nLines, lineNo, y, breaks, drawnAt>>
    /\ UNCHANGED loaderVars
    /\ UNCHANGED reqVars

\* report() has an analysis of a non-empty text: at least one wrapped line.
InitReport ==
    /\ InitLoader
    /\ InitReq
    /\ rpc = "title"
    /\ nLines \in 1..MaxLines
    /\ lineNo = 0
    /\ y = TopY
    /\ dirty = FALSE
    /\ pages = 0
    /\ breaks = 0
    /\ drawnAt = <<>>

NextReport ==
    \/ DrawTitle
    \/ DrawResult
    \/ DrawConfidence
    \/ DrawHeader
    \/ PageBreak
    \/ DrawLine
    \/ LastPage
    \/ Save

SpecReport == InitReport /\ [][NextReport]_vars

(***************************************************************************)
(* The summaries over every score.  The state is the one in which          *)
(* analyze_text has just returned to detect_ai_content or to index() with  *)
(* the analysis of a one-sentence text, for each label and each score      *)
(* from 0.000 to 1.000 the classifier can give the document.               *)
(***************************************************************************)
SummaryText == <<"a">>
AllOuts == [label : NativeLabels, score : 0..Milli]

InitSummary ==
    /\ cache = 1
    /\ loads = 1
    /\ lpc = [t \in Threads |-> "idle"]
    /\ lres = [t \in Threads |-> IF t = Req THEN 1 ELSE 0]
    /\ lcalls = [t \in Threads |-> 0]
    /\ handed = {1}
    /\ \E out \in AllOuts, handler \in {"cli", "index"} :
        /\ pc = "returned"
        /\ entry = handler
        /\ text = SummaryText
        /\ called = TRUE
        /\ pipe = 1
        /\ docOut = <<out>>
        /\ sentences = _split_sentences(SummaryText)
        /\ batchOut = <<out>>
        /\ sentOut = SentenceEntries(_split_sentences(SummaryText), <<out>>)
        /\ result = <<AnalysisDict(SummaryText, out,
                         SentenceEntries(_split_sentences(SummaryText),
                                         <<out>>))>>
        /\ outcome = "none"
        /\ trace = <<[op |-> "load", inputs |-> <<>>, ok |-> TRUE],
                     [op |-> "doc", inputs |-> <<SummaryText>>, ok |-> TRUE],
                     [op |-> "batch",
                      inputs |-> _split_sentences(SummaryText), ok |-> TRUE]>>
        /\ console = "none"
        /\ page = "none"
    /\ InitNoReport

NextSummary ==
    \/ CliPrint
    \/ IndexRender

SpecSummary == InitSummary /\ [][NextSummary]_vars

(***************************************************************************)
(* Properties.                                                             *)
(***************************************************************************)
\* The calls of pipe(...) of the request, without the model loads.
PipeCalls == SelectSeq(trace, LAMBDA e : e.op # "load")
FailedAt == {i \in DOMAIN trace : ~trace[i].ok}

\* C1: once analyze_text is entered with a text that is empty after
\* trimming, no classification call is made and the request ends in an
\* EmptyInput failure.
C1_EmptyInputRejected ==
    (called /\ Strip(text) = <<>>) =>
        /\ PipeCalls = <<>>
        /\ (pc = "done" => outcome = "EmptyInput")

\* C2: whatever the interleaving of the threads, the model is loaded at
\* most once and all callers of the loader get the same handle.
C2_LoadedOnce == loads <= 1 /\ Cardinality(handed) <= 1

\* C3: in every result of analyze_text the score is the classifier's
\* confidence scaled to 0..100 and originality = 100 - score, for the
\* document and for every sentence entry.
C3_Originality ==
    result # <<>> =>
        LET r == result[1]
        IN  /\ r.score = docOut[1].score * 100
            /\ r.score \in 0..Hundred
            /\ r.originality = Hundred - r.score
            /\ \A i \in 1..Len(r.sentences) :
                /\ r.sentences[i].score = batchOut[i].score * 100
                /\ r.sentences[i].score \in 0..Hundred
                /\ r.sentences[i].originality
                       = Hundred - r.sentences[i].score

C3_Witness ==
    /\ result # <<>>
    /\ result[1].score = 12 * Milli
    /\ result[1].originality = 88 * Milli
    /\ Len(result[1].sentences) = 2
    /\ result[1].sentences[1].originality = 88 * Milli
    /\ result[1].sentences[2].originality = 5 * (Milli \div 10)

\* C4: the sentences list of a result has one entry per fragment of
\* _split_sentences(text), the i-th entry holding the i-th fragment and the
\* i-th classifier result; with no fragment the list is empty and the
\* result is still returned.
C4_SentencesZip ==
    result # <<>> =>
        LET frags == _split_sentences(text)
            list == result[1].sentences
        IN  /\ Len(list) = Len(frags)
            /\ Len(batchOut) = Len(frags)
            /\ \A i \in 1..Len(frags) :
                /\ frags[i] # <<>>
                /\ list[i].sentence = frags[i]
                /\ list[i].label = batchOut[i].label
                /\ list[i].score = batchOut[i].score * 100

C4_Witness ==
    /\ result # <<>>
    /\ Len(result[1].sentences) = 2
    /\ result[1].sentences[1].sentence # result[1].sentences[2].sentence
    /\ batchOut[1].label # batchOut[2].label
    /\ batchOut[1].score # batchOut[2].score

\* C5 as stated: every label of a result is Human or AI.
CoreLabels == {"Human", "AI"}
C5_LabelsMapped ==
    result # <<>> =>
        /\ result[1].label \in CoreLabels
        /\ \A i \in 1..Len(result[1].sentences) :
            result[1].sentences[i].label \in CoreLabels

\* C5 as amended: every label of a result is the classifier's own label of
\* that input (Real or Fake), passed through unchanged.
C5_LabelsNative ==
    result # <<>> =>
        /\ result[1].label = docOut[1].label
        /\ result[1].label \in NativeLabels
        /\ \A i \in 1..Len(result[1].sentences) :
            /\ result[1].sentences[i].label = batchOut[i].label
            /\ result[1].sentences[i].label \in NativeLabels

C5_Witness ==
    /\ result # <<>>
    /\ docOut[1].label = "Fake"
    /\ result[1].label = "Fake"
    /\ Len(result[1].sentences) = 2
    /\ result[1].sentences[1].label = "Real"

Printed == pc = "done" /\ entry = "cli" /\ outcome = "Ok"

\* C6 as stated: the console tier is chosen by the score thresholds first,
\* whatever the label.
C6_ScoreFirst ==
    Printed => console = ScoreFirstTier(result[1].label, result[1].score)

\* C6 as amended: the console tier is chosen by the label first: a Fake
\* (AI) label gives top above 98, mid above 90, basic otherwise; any other
\* label gives the human-written statement whatever the score.
C6_LabelFirst ==
    Printed =>
        LET ai == result[1].label = "Fake"
            sc == result[1].score
        IN  /\ console = "top" <=> (ai /\ sc > 98 * Milli)
            /\ console = "mid" <=> (ai /\ sc > 90 * Milli /\ sc <= 98 * Milli)
            /\ console = "basic" <=> (ai /\ sc <= 90 * Milli)
            /\ console = "human" <=> ~ai
            /\ (ai /\ docOut[1].score = 995) => console = "top"

C6_Witness ==
    /\ Printed
    /\ result[1].label = "Real"
    /\ result[1].score > 98 * Milli
    /\ console = "human"

\* C7: a failed model load or classifier call is the last thing the
\* request does with the capability: it is not made again, no result is
\* built, and the request ends in the ClassificationUnavailable failure;
\* and that failure has no other cause.
C7_FailurePropagates ==
    /\ Cardinality(FailedAt) <= 1
    /\ FailedAt # {} =>
        /\ FailedAt = {Len(trace)}
        /\ result = <<>>
        /\ pc \in {"load18", "load42", "done"}
        /\ (pc = "done" => outcome = "ClassificationUnavailable")
    /\ outcome = "ClassificationUnavailable" =>
        /\ FailedAt # {}
        /\ result = <<>>

C7_Witness ==
    /\ pc = "done"
    /\ outcome = "ClassificationUnavailable"
    /\ docOut # <<>>
    /\ trace[Len(trace)].op = "batch"
    /\ ~trace[Len(trace)].ok
    /\ result = <<>>

\* C8: every line of the report is drawn between the bottom margin and
\* the top margin, and a body line that follows a page break is drawn at
\* the top margin.
C8_DrawnInsideMargins ==
    /\ drawnAt # <<>> => (drawnAt[1] >= Margin /\ drawnAt[1] <= TopY)
    /\ rpc = "draw" => y = TopY

C8_Witness ==
    /\ breaks = 2
    /\ lineNo > 0
    /\ drawnAt = <<TopY>>

\* The body lines that fit on the first page under the four heading rows.
FirstPageLines ==
    ((TopY - TitleStep - ResultStep - ConfidenceStep - HeaderStep
      - (Margin + 20 * Pt)) \div LineStep) + 1

\* C9: a finished report has one page more than the body loop made page
\* breaks, and more than one page when the wrapped lines outnumber those
\* that fit on the first page (and only then).
C9_Pages ==
    rpc = "done" =>
        /\ pages = breaks + 1
        /\ (nLines > FirstPageLines <=> pages > 1)

C9_Witness ==
    /\ rpc = "done"
    /\ nLines = FirstPageLines + 1
    /\ pages = 2

\* C10: a request calls the classifier at most twice: first with the whole
\* text alone, then, only if the text has sentences, once with all of them
\* in order; a returned result has made exactly these calls.
C10_CallOrder ==
    LET calls == PipeCalls
        frags == _split_sentences(text)
    IN  /\ Len(calls) <= 2
        /\ Len(calls) >= 1 =>
            (calls[1].op = "doc" /\ calls[1].inputs = <<text>>)
        /\ Len(calls) = 2 =>
            /\ calls[1].ok
            /\ calls[2].op = "batch"
            /\ calls[2].inputs = frags
            /\ frags # <<>>
        /\ result # <<>> =>
            Len(calls) = IF frags = <<>> THEN 1 ELSE 2

C10_Witness ==
    /\ result # <<>>
    /\ Len(PipeCalls) = 2
    /\ Len(PipeCalls[2].inputs) = 2

====
